---- MODULE Spec2Model ----
(***************************************************************************)
(* Model of src/src/utils/Encryption.ts, the Hyperwallet JOSE envelope     *)
(* processor: lazy key-store initialisation (createKeyStore / readKeySet), *)
(* sign-then-encrypt (encrypt) and decrypt-then-verify (decrypt).          *)
(*                                                                         *)
(* One Encryption object serves encrypt and decrypt calls.  Under Spec up   *)
(* to MaxCalls calls are made and overlap freely; under SpecSeq any number *)
(* of calls is made, each after the one before has settled.                *)
(* JavaScript runs one callback at a time, so every action below           *)
(* is one run-to-completion piece of a call: the synchronous start of the  *)
(* call, the completion of a key-set read (with the parse that follows     *)
(* it), or one of the four cryptographic steps.  Between two such pieces   *)
(* the pieces of other calls, and the clock, may run.                      *)
(*                                                                         *)
(* node-jose is modelled symbolically: a key is a record, a JWS records    *)
(* the key that signed it, a JWE records the key it is encrypted to, and   *)
(* an operation succeeds exactly when the key material fits.               *)
(***************************************************************************)
EXTENDS Integers, Sequences, FiniteSets, TLC

\* ---------------------------------------------------------------- bounds
\* number of encrypt/decrypt calls that overlap on the one object
MaxCalls == 2
\* number of times the wall clock is seen to advance
MaxTicks == 1

\* ------------------------------------------------------ program constants
millisecondsInMinute == 60000
millisecondsInSecond == 1000
DefaultJwsExpirationMinutes == 5

DefaultSignAlgorithm == "RS256"
DefaultEncryptionAlgorithm == "RSA-OAEP-256"
DefaultEncryptionMethod == "A256CBC-HS512"

\* ------------------------------------------------------------- key material
\* A JWK: key id, "alg" attribute, whether it holds the private half, and
\* whether its material is usable by the library.  The key id names the key
\* pair: the private and the public half of one pair share it.
Key(kid, alg, priv, good) == [kid |-> kid, alg |-> alg, priv |-> priv, good |-> good]

\* A key-set document as served by a location: well-formed with its keys in
\* document order, or not a JWK set at all.
JwkSet(keys) == [wellFormed |-> TRUE, keys |-> keys]
MalformedJwkSet == [wellFormed |-> FALSE, keys |-> <<>>]

\* Documents the client location may hold (private keys).
ClientJwkSets ==
    { JwkSet(<<Key("sig-1", "RS256", TRUE, TRUE), Key("enc-1", "RSA-OAEP-256", TRUE, TRUE)>>),
      JwkSet(<<Key("sig-2", "RS256", TRUE, FALSE)>>),
      JwkSet(<<Key("ec-1", "ES256", TRUE, TRUE), Key("enc-1", "RSA-OAEP-256", TRUE, TRUE)>>),
      MalformedJwkSet }

\* Documents the hyperwallet location may hold (public keys).
HyperwalletJwkSets ==
    { JwkSet(<<Key("sig-1", "RS256", FALSE, TRUE), Key("enc-1", "RSA-OAEP-256", FALSE, TRUE)>>),
      JwkSet(<<Key("sig-3", "RS256", FALSE, TRUE)>>),
      JwkSet(<<Key("ec-1", "ES256", FALSE, TRUE), Key("enc-2", "RSA-OAEP-256", FALSE, FALSE)>>),
      MalformedJwkSet }

\* A jose.JWK.KeyStore field of the object: undefined until assigned.
UndefinedKeyStore == [ready |-> FALSE, keys |-> <<>>]
KeyStore(keys) == [ready |-> TRUE, keys |-> keys]

\* Locations the two constructor arguments may name: a path or a URL.
ClientLocations == {"/keys/client-jwkset.json"}
HyperwalletLocations == {"https://hw.example/jwkset"}
IsUrl(loc) == loc \in {"https://hw.example/jwkset"}

\* Request bodies handed to encrypt.
Bodies == { [amount |-> 100], [amount |-> 7] }

\* JSON.stringify(body) of signBody
JSONstringify(body) == "{\"amount\":" \o ToString(body.amount) \o "}"

\* --------------------------------------------------------------- envelopes
\* A compact JWS as signBody produces it: the protected header fields alg,
\* kid, exp (crit = ["exp"] always), the payload text, the key pair whose
\* private half made the signature, and whether the segments are as made.
Jws(payload, alg, kid, exp, signer) ==
    [wellFormed |-> TRUE, payload |-> payload, alg |-> alg, kid |-> kid,
     exp |-> exp, signer |-> signer, intact |-> TRUE]
NoJws ==
    [wellFormed |-> FALSE, payload |-> "", alg |-> "", kid |-> "",
     exp |-> 0, signer |-> "", intact |-> FALSE]

\* A compact JWE as encryptBody produces it: header alg, enc, kid, the key
\* pair it is encrypted to, whether the segments are as made, and the signed
\* body inside.
Jwe(alg, enc, kid, recipient, inner) ==
    [wellFormed |-> TRUE, alg |-> alg, enc |-> enc, kid |-> kid,
     recipient |-> recipient, intact |-> TRUE, inner |-> inner]
NoJwe ==
    [wellFormed |-> FALSE, alg |-> "", enc |-> "", kid |-> "",
     recipient |-> "", intact |-> FALSE, inner |-> NoJws]

\* jose.JWS.VerificationResult: the verified payload and the header
VerificationResult(jws, key) ==
    [payload |-> jws.payload,
     header |-> [alg |-> jws.alg, kid |-> jws.kid, exp |-> jws.exp],
     key |-> key.kid]
NoVerificationResult ==
    [payload |-> "", header |-> [alg |-> "", kid |-> "", exp |-> 0], key |-> ""]

\* ------------------------------------------------------------------ errors
\* The code raises plain Errors told apart by their message; kind names the
\* message template and info the value interpolated into it.
Err(kind, info) == [kind |-> kind, info |-> info]
NoError == Err("none", "")
\* `Wrong JWK set location path = ${keySetPath}`
WrongLocation(keySetPath) == Err("KeySourceUnavailable", keySetPath)
\* new Error(err.message): the message of the fs error, passed through
FsReadError(message) == Err("FsReadError", message)
\* 'Failed to create keyStore from given jwkSet'
KeyStoreCreationFailed == Err("MalformedKeySet", "")
\* `JWK set doesn't contain key with algorithm = ${alg}`
NoKeyWithAlgorithm(alg) == Err("AlgorithmNotProvisioned", alg)
\* `Failed to sign with key id = ${key.kid}`
FailedToSign(kid) == Err("SigningFailed", kid)
\* `Failed to encrypt payload with key id = ${key.kid}`
FailedToEncrypt(kid) == Err("EncryptionFailed", kid)
\* `Failed to decrypt payload with key id = ${key.kid}`
FailedToDecrypt(kid) == Err("DecryptionFailed", kid)
\* `Failed to verify signature with key id = ${key.kid}`
FailedToVerify(kid) == Err("SignatureInvalid", kid)
\* 'JWS signature has expired'
SignatureHasExpired == Err("SignatureExpired", "")

\* ---------------------------------------------------------------- promises
\* A promise settles once: the first resolve or reject wins, later ones are
\* ignored.  "never" is a promise whose executor threw inside an async
\* function: nothing ever settles it.
Pending == [status |-> "pending", error |-> NoError]
Resolve(p) == IF p.status = "pending" THEN [status |-> "resolved", error |-> NoError] ELSE p
Reject(p, e) == IF p.status = "pending" THEN [status |-> "rejected", error |-> e] ELSE p
NeverSettles == [status |-> "never", error |-> NoError]

\* --------------------------------------------------------------------- time
\* Math.round(x / 1000) for an integer x: halves round up
RoundDiv(x, d) == (2 * x + d) \div (2 * d)

\* getCurrentTime(): the clock in seconds
getCurrentTime(nowMs) == RoundDiv(nowMs, millisecondsInSecond)

\* an expiration time cut down to the full second instead of rounded
getSignatureExpirationTimeFloor(nowMs, minutes) ==
    (nowMs + minutes * millisecondsInMinute) \div millisecondsInSecond

\* getSignatureExpirationTime(): the clock plus the validity window, in seconds
getSignatureExpirationTime(nowMs, minutes) ==
    RoundDiv(nowMs + minutes * millisecondsInMinute, millisecondsInSecond)

\* an exp handler that never finds the signature expired
HasExpiredNever(nowMs, exp) == FALSE
\* an exp handler that takes the last valid second for expired
HasExpiredAtExp(nowMs, exp) == getCurrentTime(nowMs) >= exp
\* the exp handler's test in checkSignature
HasExpired(nowMs, exp) == getCurrentTime(nowMs) > exp

\* ---------------------------------------------------------------- key store
\* keyStore.all({ alg }): the keys whose alg is the one asked for, in order
AllWithAlg(store, alg) == SelectSeq(store.keys, LAMBDA k : k.alg = alg)
\* ...[0] is undefined when there is none
HasRawKey(store, alg) == Len(AllWithAlg(store, alg)) > 0
RawKey(store, alg) == AllWithAlg(store, alg)[1]

\* ------------------------------------------------- the library's operations
\* createSign(...).final() succeeds when the key holds usable private material
SignSucceeds(key) == key.priv /\ key.good
\* createEncrypt(...).final() succeeds when the key material is usable
EncryptSucceeds(key) == key.good
\* createDecrypt(key).decrypt(body) succeeds on an untouched, well-formed JWE
\* encrypted to this key pair, with the usable private half
DecryptSucceeds(key, jwe) ==
    jwe.wellFormed /\ jwe.intact /\ jwe.recipient = key.kid /\ key.priv /\ key.good
\* createVerify(key).verify(body) succeeds on an untouched, well-formed JWS
\* signed by this key pair
VerifySucceeds(key, jws) ==
    jws.wellFormed /\ jws.intact /\ jws.signer = key.kid /\ key.good

\* ------------------------------------------------------- the four steps
\* Each step is `new Promise(async (resolve, reject) => ...)`: it reads the
\* key store first, and a key store that is still undefined makes the async
\* executor throw, which settles nothing.

\* signBody without its `if (!rawKey)` test: the missing key makes the async
\* executor throw
signBodyPromiseUnchecked(store, alg) ==
    IF ~store.ready \/ ~HasRawKey(store, alg) THEN NeverSettles
    ELSE IF SignSucceeds(RawKey(store, alg)) THEN Resolve(Pending)
    ELSE Reject(Pending, FailedToSign(RawKey(store, alg).kid))

\* signBody: the promise it returns
signBodyPromise(store, alg) ==
    IF ~store.ready THEN NeverSettles
    ELSE IF ~HasRawKey(store, alg) THEN Reject(Pending, NoKeyWithAlgorithm(alg))
    ELSE IF SignSucceeds(RawKey(store, alg)) THEN Resolve(Pending)
    ELSE Reject(Pending, FailedToSign(RawKey(store, alg).kid))

\* signBody signing the body object itself instead of its JSON text
signBodyValueUnserialized(store, alg, body, nowMs, minutes) ==
    LET key == RawKey(store, alg)
    IN Jws("[object Object]", key.alg, key.kid,
           getSignatureExpirationTime(nowMs, minutes), key.kid)

\* signBody: the compact JWS it resolves with
signBodyValue(store, alg, body, nowMs, minutes) ==
    LET key == RawKey(store, alg)
    IN Jws(JSONstringify(body), key.alg, key.kid,
           getSignatureExpirationTime(nowMs, minutes), key.kid)

\* encryptBody: the promise it returns
encryptBodyPromise(store, alg) ==
    IF ~store.ready THEN NeverSettles
    ELSE IF ~HasRawKey(store, alg) THEN Reject(Pending, NoKeyWithAlgorithm(alg))
    ELSE IF EncryptSucceeds(RawKey(store, alg)) THEN Resolve(Pending)
    ELSE Reject(Pending, FailedToEncrypt(RawKey(store, alg).kid))

\* encryptBody: the compact JWE it resolves with
encryptBodyValue(store, alg, method, signedBody) ==
    LET key == RawKey(store, alg)
    IN Jwe(key.alg, method, key.kid, key.kid, signedBody)

\* decryptBody handing on the library's own error
decryptBodyPromiseRawError(store, alg, body) ==
    IF ~store.ready THEN NeverSettles
    ELSE IF ~HasRawKey(store, alg) THEN Reject(Pending, NoKeyWithAlgorithm(alg))
    ELSE IF DecryptSucceeds(RawKey(store, alg), body) THEN Resolve(Pending)
    ELSE Reject(Pending, Err("LibraryError", ""))

\* decryptBody: the promise it returns
decryptBodyPromise(store, alg, body) ==
    IF ~store.ready THEN NeverSettles
    ELSE IF ~HasRawKey(store, alg) THEN Reject(Pending, NoKeyWithAlgorithm(alg))
    ELSE IF DecryptSucceeds(RawKey(store, alg), body) THEN Resolve(Pending)
    ELSE Reject(Pending, FailedToDecrypt(RawKey(store, alg).kid))

\* checkSignature: the promise it returns.  The exp handler calls reject and
\* returns, so verification goes on after it; which of the two reaches the
\* promise first when both fail is the library's choice (handlerFirst: the
\* handler runs before the signature is verified; otherwise only after a
\* successful verification).
checkSignaturePromise(store, alg, jws, nowMs, handlerFirst) ==
    IF ~store.ready THEN NeverSettles
    ELSE IF ~HasRawKey(store, alg) THEN Reject(Pending, NoKeyWithAlgorithm(alg))
    ELSE LET key == RawKey(store, alg)
             verified == VerifySucceeds(key, jws)
             handlerRuns == jws.wellFormed /\ (handlerFirst \/ verified)
             afterHandler == IF handlerRuns /\ HasExpired(nowMs, jws.exp)
                             THEN Reject(Pending, SignatureHasExpired)
                             ELSE Pending
         IN IF verified THEN Resolve(afterHandler)
            ELSE Reject(afterHandler, FailedToVerify(key.kid))

\* whether a step got as far as calling the library's cryptographic operation
CryptoAttempted(store, alg) == store.ready /\ HasRawKey(store, alg)

\* ------------------------------------------------------------- readKeySet
\* fs.existsSync(keySetPath): a URL names no file; a path names one or not
ExistsSyncResults(keySetPath) == IF IsUrl(keySetPath) THEN {FALSE} ELSE {TRUE, FALSE}

\* readKeySet issuing the request whether or not the file is there
readKeySetIssueBoth(keySetPath, exists) ==
    [loc |-> keySetPath, exists |-> exists, existsSync |-> 1,
     readFile |-> IF exists THEN 1 ELSE 0,
     request |-> 1,
     promise |-> Pending]

\* The synchronous part of readKeySet: the existence probe, then either
\* fs.readFile or request(keySetPath) is issued.
readKeySetIssue(keySetPath, exists) ==
    [loc |-> keySetPath, exists |-> exists, existsSync |-> 1,
     readFile |-> IF exists THEN 1 ELSE 0,
     request |-> IF exists THEN 0 ELSE 1,
     promise |-> Pending]

\* fs.readFile's callback: err is null or an fs error with its message
ReadFileErrors(keySetPath) ==
    { "EACCES: permission denied, open '" \o keySetPath \o "'",
      "EISDIR: illegal operation on a directory, read" }
\* request(keySetPath): a GET of a URL answers or fails; a GET of something
\* that is no URL fails
RequestAnswers(keySetPath) == IF IsUrl(keySetPath) THEN {TRUE, FALSE} ELSE {FALSE}

\* response.body when it is a non-empty object, else response.text
ResponseBody(response) ==
    IF response.hasBody THEN response.body ELSE response.text

\* The ways the pending read of `entry` can complete: the settled promise
\* and the data it resolves with.
readKeySetOutcomes(entry, jwkSet) ==
    IF entry.readFile = 1
    THEN { [promise |-> Resolve(Pending), data |-> jwkSet] }
         \cup { [promise |-> Reject(Pending, FsReadError(m)), data |-> MalformedJwkSet] :
                    m \in ReadFileErrors(entry.loc) }
    ELSE { [promise |-> Resolve(Pending),
            data |-> ResponseBody([hasBody |-> b, body |-> jwkSet, text |-> jwkSet])] :
                b \in {x \in BOOLEAN : TRUE \in RequestAnswers(entry.loc)} }
         \cup { [promise |-> Reject(Pending, WrongLocation(entry.loc)), data |-> MalformedJwkSet] :
                    a \in {x \in RequestAnswers(entry.loc) : x = FALSE} }

\* ------------------------------------------------------------------- state
VARIABLES
    clientPrivateKeySetLocation,  \* constructor argument
    hyperwalletKeySetLocation,    \* constructor argument
    jwsExpirationMinutes,         \* constructor argument
    clientKeyStore,               \* this.clientKeyStore
    hwKeyStore,                   \* this.hwKeyStore
    clientJwkSet,                 \* the document at the client location
    hwJwkSet,                     \* the document at the hyperwallet location
    now,                          \* new Date().getTime()
    ticks,                        \* how often the clock has advanced
    calls,                        \* the encrypt/decrypt calls and where they are
    reassigned,                   \* whether a key store field was assigned again
    refetched                     \* whether a key set was read for a populated store

vars == <<clientPrivateKeySetLocation, hyperwalletKeySetLocation, jwsExpirationMinutes,
          clientKeyStore, hwKeyStore, clientJwkSet, hwJwkSet, now, ticks, calls, reassigned, refetched>>

config == <<clientPrivateKeySetLocation, hyperwalletKeySetLocation, jwsExpirationMinutes,
            clientJwkSet, hwJwkSet>>

signAlgorithm == DefaultSignAlgorithm
encryptionAlgorithm == DefaultEncryptionAlgorithm
encryptionMethod == DefaultEncryptionMethod

CallIds == 1 .. MaxCalls

\* A call that has not been made yet.
NoCall ==
    [op |-> "none", pc |-> "idle",
     body |-> [amount |-> 0], input |-> NoJwe,
     keyStorePromise |-> Pending,
     signedBody |-> NoJws, decryptedBody |-> NoJws,
     promise |-> Pending, encrypted |-> NoJwe, verified |-> NoVerificationResult,
     steps |-> <<>>, reads |-> <<>>,
     origin |-> [produced |-> FALSE, body |-> [amount |-> 0], damage |-> "none"],
     afterSettled |-> FALSE]

\* validity windows the constructor is given
ValidityWindows == {DefaultJwsExpirationMinutes}

Init ==
    /\ clientPrivateKeySetLocation \in ClientLocations
    /\ hyperwalletKeySetLocation \in HyperwalletLocations
    /\ jwsExpirationMinutes \in ValidityWindows
    /\ clientKeyStore = UndefinedKeyStore
    /\ hwKeyStore = UndefinedKeyStore
    /\ clientJwkSet \in ClientJwkSets
    /\ hwJwkSet \in HyperwalletJwkSets
    /\ now = 0
    /\ ticks = 0
    /\ calls = [c \in CallIds |-> NoCall]
    /\ reassigned = [client |-> FALSE, hw |-> FALSE]
    /\ refetched = [client |-> FALSE, hw |-> FALSE]

\* ----------------------------------------------------------------- helpers
Call(c) == calls[c]
Last(seq) == seq[Len(seq)]
SetLast(seq, x) == [seq EXCEPT ![Len(seq)] = x]

\* encrypt creating the key stores on every call
encryptNeverHasKeyStores(client, hw) == FALSE
\* encrypt making decrypt's test
encryptHasKeyStoresHwOnly(client, hw) == hw.ready
\* encrypt skips createKeyStore when both key stores are there
encryptHasKeyStores(client, hw) == client.ready /\ hw.ready
\* decrypt creating the key stores on every call
decryptNeverHasKeyStores(client, hw) == FALSE
\* decrypt skips createKeyStore when the hyperwallet key store is there
decryptHasKeyStores(client, hw) == hw.ready

\* what a step leaves in the call's history
StepEntry(name, store, alg, p) ==
    [name |-> name, clientReady |-> clientKeyStore.ready, hwReady |-> hwKeyStore.ready,
     keys |-> store.keys, attempted |-> CryptoAttempted(store, alg), promise |-> p,
     nowMs |-> now]

\* a slot is free before its first call and once its call has settled
Free(c) == Call(c).pc \in {"idle", "settled"}
\* no call is in flight
NoneInFlight == \A d \in CallIds : Free(d)
\* a call takes a slot of its own, the first unused one
FirstUnused(c) == Call(c).pc = "idle" /\ \A d \in CallIds : d < c => Call(d).pc # "idle"
\* a call is made when none is in flight, and takes the first slot over
OneAtATime(c) == NoneInFlight /\ \A d \in CallIds : d >= c

\* a call as it starts: it notes whether every call before it has settled
Started(c, op) == [NoCall EXCEPT !.op = op, !.afterSettled = NoneInFlight]

\* the call's first piece: the key stores are there, or createKeyStore starts
\* and readKeySet(this.hyperwalletKeySetLocation) issues its read
Begin(c, started, hasKeyStores, firstStep) ==
    IF hasKeyStores
    THEN /\ calls' = [calls EXCEPT ![c] =
                        [started EXCEPT !.pc = firstStep, !.keyStorePromise = Resolve(Pending)]]
         /\ UNCHANGED refetched
    ELSE /\ \E exists \in ExistsSyncResults(hyperwalletKeySetLocation) :
              calls' = [calls EXCEPT ![c] =
                          [started EXCEPT !.pc = "readHw",
                                          !.reads = <<readKeySetIssue(hyperwalletKeySetLocation, exists)>>]]
         /\ refetched' = [refetched EXCEPT !.hw = @ \/ hwKeyStore.ready]

\* ----------------------------------------------------------------- actions
\* encrypt(body), up to its first await
StartEncrypt(c, bodies) ==
    /\ Free(c)
    /\ \E body \in bodies :
          Begin(c, [Started(c, "encrypt") EXCEPT !.body = body],
                encryptHasKeyStores(clientKeyStore, hwKeyStore), "signBody")
    /\ UNCHANGED <<config, clientKeyStore, hwKeyStore, now, ticks, reassigned>>

\* createKeyStore, first half: the hyperwallet key set has been read (or
\* not).  A failed read skips the rest of the chain.  A document that is no
\* JWK set rejects the promise, and the chain goes on to the client key set.
HwKeySetRead(c) ==
    /\ Call(c).pc = "readHw"
    /\ \E out \in readKeySetOutcomes(Last(Call(c).reads), hwJwkSet) :
          LET reads == SetLast(Call(c).reads, [Last(Call(c).reads) EXCEPT !.promise = out.promise])
          IN IF out.promise.status = "rejected"
             THEN /\ calls' = [calls EXCEPT ![c] =
                                 [@ EXCEPT !.reads = reads,
                                           !.keyStorePromise = Reject(@, out.promise.error),
                                           !.promise = Reject(@, out.promise.error),
                                           !.pc = "settled"]]
                  /\ UNCHANGED <<hwKeyStore, reassigned, refetched>>
             ELSE /\ IF out.data.wellFormed
                     THEN /\ hwKeyStore' = KeyStore(out.data.keys)
                          /\ reassigned' = [reassigned EXCEPT !.hw = @ \/ hwKeyStore.ready]
                     ELSE UNCHANGED <<hwKeyStore, reassigned>>
                  /\ refetched' = [refetched EXCEPT !.client = @ \/ clientKeyStore.ready]
                  /\ \E exists \in ExistsSyncResults(clientPrivateKeySetLocation) :
                        calls' = [calls EXCEPT ![c] =
                                    [@ EXCEPT !.reads = Append(reads,
                                                  readKeySetIssue(clientPrivateKeySetLocation, exists)),
                                              !.keyStorePromise =
                                                  IF out.data.wellFormed THEN @
                                                  ELSE Reject(@, KeyStoreCreationFailed),
                                              !.pc = "readClient"]]
    /\ UNCHANGED <<config, clientKeyStore, now, ticks>>

\* createKeyStore, second half: the client key set has been read (or not),
\* then `.then(resolve).catch(reject)`; the call goes on to its first step
\* if the promise resolved and rejects with its error otherwise.
ClientKeySetRead(c) ==
    /\ Call(c).pc = "readClient"
    /\ \E out \in readKeySetOutcomes(Last(Call(c).reads), clientJwkSet) :
          LET reads == SetLast(Call(c).reads, [Last(Call(c).reads) EXCEPT !.promise = out.promise])
              parsed == out.promise.status = "resolved" /\ out.data.wellFormed
              ksp == IF out.promise.status = "rejected"
                     THEN Reject(Call(c).keyStorePromise, out.promise.error)
                     ELSE IF out.data.wellFormed
                     THEN Resolve(Call(c).keyStorePromise)
                     ELSE Resolve(Reject(Call(c).keyStorePromise, KeyStoreCreationFailed))
          IN /\ IF parsed
                THEN /\ clientKeyStore' = KeyStore(out.data.keys)
                     /\ reassigned' = [reassigned EXCEPT !.client = @ \/ clientKeyStore.ready]
                ELSE UNCHANGED <<clientKeyStore, reassigned>>
             /\ calls' = [calls EXCEPT ![c] =
                            [@ EXCEPT !.reads = reads,
                                      !.keyStorePromise = ksp,
                                      !.promise = IF ksp.status = "resolved" THEN @
                                                  ELSE Reject(@, ksp.error),
                                      !.pc = IF ksp.status # "resolved" THEN "settled"
                                             ELSE IF Call(c).op = "encrypt" THEN "signBody"
                                             ELSE "decryptBody"]]
    /\ UNCHANGED <<config, hwKeyStore, now, ticks, refetched>>

\* a call going on to the next step whatever became of this one
AfterStepRegardless(p, next) == IF p.status = "never" THEN "stuck" ELSE next
\* where a call is after a step whose promise is p
AfterStep(p, next) ==
    CASE p.status = "resolved" -> next
      [] p.status = "rejected" -> "settled"
      [] OTHER -> "stuck"

\* encrypt: `await this.signBody(body)`
SignBody(c) ==
    /\ Call(c).pc = "signBody"
    /\ LET p == signBodyPromise(clientKeyStore, signAlgorithm)
       IN calls' = [calls EXCEPT ![c] =
            [@ EXCEPT !.steps = Append(@, StepEntry("signBody", clientKeyStore, signAlgorithm, p)),
                      !.signedBody = IF p.status = "resolved"
                                     THEN signBodyValue(clientKeyStore, signAlgorithm,
                                                        Call(c).body, now, jwsExpirationMinutes)
                                     ELSE @,
                      !.promise = IF p.status = "rejected" THEN Reject(@, p.error) ELSE @,
                      !.pc = AfterStep(p, "encryptBody")]]
    /\ UNCHANGED <<config, clientKeyStore, hwKeyStore, now, ticks, reassigned, refetched>>

\* encrypt: `return this.encryptBody(signedBody)`
EncryptBody(c) ==
    /\ Call(c).pc = "encryptBody"
    /\ LET p == encryptBodyPromise(hwKeyStore, encryptionAlgorithm)
       IN calls' = [calls EXCEPT ![c] =
            [@ EXCEPT !.steps = Append(@, StepEntry("encryptBody", hwKeyStore, encryptionAlgorithm, p)),
                      !.encrypted = IF p.status = "resolved"
                                    THEN encryptBodyValue(hwKeyStore, encryptionAlgorithm,
                                                          encryptionMethod, Call(c).signedBody)
                                    ELSE @,
                      !.promise = IF p.status = "never" THEN @ ELSE p,
                      !.pc = AfterStep(p, "settled")]]
    /\ UNCHANGED <<config, clientKeyStore, hwKeyStore, now, ticks, reassigned, refetched>>

\* ------------------------------------------------------- decrypt's inputs
\* An envelope from the counterparty: signed with the private half of its
\* signing key, encrypted to the client's encryption key.
ServerSigningKid == "sig-1"
ClientEncryptionKid == "enc-1"
ServerEnvelope(exp) ==
    Jwe(encryptionAlgorithm, encryptionMethod, ClientEncryptionKid, ClientEncryptionKid,
        Jws(JSONstringify([amount |-> 100]), signAlgorithm, ServerSigningKid, exp,
            ServerSigningKid))

\* What may arrive: what encrypt has produced on this object so far, and
\* envelopes of the counterparty expiring around the present second.
Produced ==
    { [envelope |-> Call(d).encrypted, produced |-> TRUE, body |-> Call(d).body] :
        d \in {e \in CallIds : Call(e).op = "encrypt" /\ Call(e).promise.status = "resolved"} }
FromServer(exp) ==
    [envelope |-> ServerEnvelope(exp), produced |-> FALSE, body |-> [amount |-> 100]]
Arrivals == Produced \cup { FromServer(getCurrentTime(now) + k) : k \in {-1, 0} }

\* ...as sent, or damaged on the way
Damages == {"none", "ciphertext", "signature", "not a JWE", "not a JWS"}
Damaged(jwe, how) ==
    CASE how = "none" -> jwe
      [] how = "ciphertext" -> [jwe EXCEPT !.intact = FALSE]
      [] how = "signature" -> [jwe EXCEPT !.inner.intact = FALSE]
      [] how = "not a JWE" -> [jwe EXCEPT !.wellFormed = FALSE]
      [] how = "not a JWS" -> [jwe EXCEPT !.inner.wellFormed = FALSE]

\* decrypt(body), up to the first `.then`
StartDecrypt(c, arrivals, damages) ==
    /\ Free(c)
    /\ \E jwe \in arrivals, how \in damages :
          Begin(c, [Started(c, "decrypt") EXCEPT !.input = Damaged(jwe.envelope, how),
                                                 !.origin = [produced |-> jwe.produced,
                                                             body |-> jwe.body,
                                                             damage |-> how]],
                decryptHasKeyStores(clientKeyStore, hwKeyStore), "decryptBody")
    /\ UNCHANGED <<config, clientKeyStore, hwKeyStore, now, ticks, reassigned>>

\* decrypt: `.then(() => this.decryptBody(body))`
DecryptBody(c) ==
    /\ Call(c).pc = "decryptBody"
    /\ LET p == decryptBodyPromise(clientKeyStore, encryptionAlgorithm, Call(c).input)
       IN calls' = [calls EXCEPT ![c] =
            [@ EXCEPT !.steps = Append(@, StepEntry("decryptBody", clientKeyStore, encryptionAlgorithm, p)),
                      !.decryptedBody = IF p.status = "resolved" THEN Call(c).input.inner ELSE @,
                      !.promise = IF p.status = "rejected" THEN Reject(@, p.error) ELSE @,
                      !.pc = AfterStep(p, "checkSignature")]]
    /\ UNCHANGED <<config, clientKeyStore, hwKeyStore, now, ticks, reassigned, refetched>>

\* decrypt: `.then(decryptedBody => this.checkSignature(...))`
CheckSignature(c) ==
    /\ Call(c).pc = "checkSignature"
    /\ \E handlerFirst \in BOOLEAN :
          LET p == checkSignaturePromise(hwKeyStore, signAlgorithm, Call(c).decryptedBody,
                                         now, handlerFirst)
          IN calls' = [calls EXCEPT ![c] =
               [@ EXCEPT !.steps = Append(@, StepEntry("checkSignature", hwKeyStore, signAlgorithm, p)),
                         !.verified = IF p.status = "resolved"
                                      THEN VerificationResult(Call(c).decryptedBody,
                                                              RawKey(hwKeyStore, signAlgorithm))
                                      ELSE @,
                         !.promise = IF p.status = "never" THEN @ ELSE p,
                         !.pc = AfterStep(p, "settled")]]
    /\ UNCHANGED <<config, clientKeyStore, hwKeyStore, now, ticks, reassigned, refetched>>

\* the clock advances between two callbacks
ClockSteps == {DefaultJwsExpirationMinutes * millisecondsInMinute + 500}
Tick ==
    /\ ticks < MaxTicks
    /\ \E d \in ClockSteps : now' = now + d
    /\ ticks' = ticks + 1
    /\ UNCHANGED <<config, clientKeyStore, hwKeyStore, calls, reassigned, refetched>>

\* Up to MaxCalls calls that overlap freely, all within one reading of the
\* clock; the inputs are few.
FewBodies == { [amount |-> 100] }
FewArrivals == Produced \cup { FromServer(getCurrentTime(now)) }
FewDamages == {"none", "ciphertext"}

Next ==
    \/ \E c \in CallIds : FirstUnused(c) /\ StartEncrypt(c, FewBodies)
    \/ \E c \in CallIds : FirstUnused(c) /\ StartDecrypt(c, FewArrivals, FewDamages)
    \/ \E c \in CallIds : HwKeySetRead(c)
    \/ \E c \in CallIds : ClientKeySetRead(c)
    \/ \E c \in CallIds : SignBody(c)
    \/ \E c \in CallIds : EncryptBody(c)
    \/ \E c \in CallIds : DecryptBody(c)
    \/ \E c \in CallIds : CheckSignature(c)

Spec == Init /\ [][Next]_vars

\* Every read of a key set and every step's promise that can settle does, and
\* the event loop runs the callback waiting for it: each call's pending piece
\* is taken in the end.  Nothing obliges a caller to make a call.
Fairness ==
    \A c \in CallIds :
        /\ WF_vars(HwKeySetRead(c))
        /\ WF_vars(ClientKeySetRead(c))
        /\ WF_vars(SignBody(c))
        /\ WF_vars(EncryptBody(c))
        /\ WF_vars(DecryptBody(c))
        /\ WF_vars(CheckSignature(c))

FairSpec == Spec /\ Fairness

\* One call at a time, each made once the one before has settled;
\* the inputs are many.
NextSeq ==
    \/ \E c \in CallIds : OneAtATime(c) /\ StartEncrypt(c, Bodies)
    \/ \E c \in CallIds : OneAtATime(c) /\ StartDecrypt(c, Arrivals, Damages)
    \/ \E c \in CallIds : HwKeySetRead(c)
    \/ \E c \in CallIds : ClientKeySetRead(c)
    \/ \E c \in CallIds : SignBody(c)
    \/ \E c \in CallIds : EncryptBody(c)
    \/ \E c \in CallIds : DecryptBody(c)
    \/ \E c \in CallIds : CheckSignature(c)
    \/ Tick

SpecSeq == Init /\ [][NextSeq]_vars

\* The clock and the validity window at large: the object is constructed at
\* any of ClockValues with any of ClockValidityWindows over key sets that
\* match, the calls are made one after the other, and the clock moves by
\* milliseconds between two callbacks.
ClockValues == {0, 499, 500, 1400, 1999}
ClockValidityWindows == {0, 1, DefaultJwsExpirationMinutes}
ClockAdvances == {1, 100, 600}

InitClock ==
    /\ clientPrivateKeySetLocation \in ClientLocations
    /\ hyperwalletKeySetLocation \in HyperwalletLocations
    /\ jwsExpirationMinutes \in ClockValidityWindows
    /\ clientKeyStore = UndefinedKeyStore
    /\ hwKeyStore = UndefinedKeyStore
    /\ clientJwkSet \in ClientJwkSets
    /\ hwJwkSet \in HyperwalletJwkSets
    /\ clientJwkSet.wellFormed /\ hwJwkSet.wellFormed
    /\ \A alg \in {signAlgorithm, encryptionAlgorithm} :
          /\ HasRawKey(KeyStore(clientJwkSet.keys), alg)
          /\ HasRawKey(KeyStore(hwJwkSet.keys), alg)
          /\ RawKey(KeyStore(clientJwkSet.keys), alg).kid = RawKey(KeyStore(hwJwkSet.keys), alg).kid
    /\ now \in ClockValues
    /\ ticks = 0
    /\ calls = [c \in CallIds |-> NoCall]
    /\ reassigned = [client |-> FALSE, hw |-> FALSE]
    /\ refetched = [client |-> FALSE, hw |-> FALSE]

\* the clock advances by some milliseconds between two callbacks
TickMs ==
    /\ ticks < MaxTicks
    /\ \E d \in ClockAdvances : now' = now + d
    /\ ticks' = ticks + 1
    /\ UNCHANGED <<config, clientKeyStore, hwKeyStore, calls, reassigned, refetched>>

NextClock ==
    \/ \E c \in CallIds : FirstUnused(c) /\ NoneInFlight /\ StartEncrypt(c, FewBodies)
    \/ \E c \in CallIds : FirstUnused(c) /\ NoneInFlight /\ StartDecrypt(c, Produced, {"none"})
    \/ \E c \in CallIds : HwKeySetRead(c)
    \/ \E c \in CallIds : ClientKeySetRead(c)
    \/ \E c \in CallIds : SignBody(c)
    \/ \E c \in CallIds : EncryptBody(c)
    \/ \E c \in CallIds : DecryptBody(c)
    \/ \E c \in CallIds : CheckSignature(c)
    \/ TickMs

SpecClock == InitClock /\ [][NextClock]_vars

\* ================================================================ properties
\* the calls made so far
Made == {c \in CallIds : Call(c).op # "none"}
Encrypts == {c \in Made : Call(c).op = "encrypt"}
Decrypts == {c \in Made : Call(c).op = "decrypt"}
Settled(c) == Call(c).pc = "settled"
\* the entry a step left in the call's history, when it ran
Ran(c, name) == \E i \in DOMAIN Call(c).steps : Call(c).steps[i].name = name
StepOf(c, name) ==
    Call(c).steps[CHOOSE i \in DOMAIN Call(c).steps : Call(c).steps[i].name = name]
\* the key a step picked from the key store it read
KeyOf(entry, alg) == RawKey(KeyStore(entry.keys), alg)
KeyFound(entry, alg) == HasRawKey(KeyStore(entry.keys), alg)

\* The client key set holds usable private signing and decryption keys and
\* the hyperwallet key set holds the public halves of the same pairs.
MatchingKeySets ==
    LET client == KeyStore(clientJwkSet.keys)
        hw == KeyStore(hwJwkSet.keys)
    IN /\ clientJwkSet.wellFormed /\ hwJwkSet.wellFormed
       /\ \A alg \in {signAlgorithm, encryptionAlgorithm} :
             /\ HasRawKey(client, alg) /\ HasRawKey(hw, alg)
             /\ RawKey(client, alg).kid = RawKey(hw, alg).kid
             /\ RawKey(client, alg).priv /\ RawKey(client, alg).good
             /\ RawKey(hw, alg).good

\* a decrypt call that was handed, untouched, what encrypt produced on this
\* object, under matching key sets
RoundTrip(c) ==
    /\ c \in Decrypts
    /\ Call(c).origin.produced
    /\ Call(c).origin.damage = "none"
    /\ MatchingKeySets
\* ...has come back with the payload that went in and the signing key's id
CameBack(c) ==
    /\ Call(c).promise.status = "resolved"
    /\ Call(c).verified.payload = JSONstringify(Call(c).origin.body)
    /\ Call(c).verified.header.kid = RawKey(KeyStore(hwJwkSet.keys), signAlgorithm).kid

\* C1 as claimed: decrypt(encrypt(P)) succeeds for every payload P under
\* matching key sets and returns P with the kid of the server's signing key.
C1_RoundTripAlways ==
    \A c \in CallIds : RoundTrip(c) /\ Call(c).pc \in {"settled", "stuck"} => CameBack(c)

\* C1 as amended: decrypt(encrypt(P)) succeeds and returns P (as its JSON
\* text) with the kid of the server's signing key, provided the clock in
\* seconds has not passed the signed exp when the call's last step runs.
C1_RoundTripUntilExpiry ==
    \A c \in CallIds :
        RoundTrip(c) /\ Call(c).pc \in {"settled", "stuck"}
        /\ (2 * Last(Call(c).steps).nowMs + 1000) \div 2000 <= Call(c).input.inner.exp
        => CameBack(c)

\* a round trip of the payload {"amount": 7} has come back
C1_Witness ==
    \E c \in CallIds :
        RoundTrip(c) /\ Settled(c) /\ CameBack(c) /\ Call(c).origin.body = [amount |-> 7]

\* ---------------------------------------------------------------------- C2
\* C2: within every call the steps run in a fixed order: encryptBody runs
\* only as the second step, after a signBody that resolved; checkSignature
\* runs only as the second step, after a decryptBody that resolved.
C2_StepOrder ==
    \A c \in Made :
        LET st == Call(c).steps
            first == IF Call(c).op = "encrypt" THEN "signBody" ELSE "decryptBody"
            second == IF Call(c).op = "encrypt" THEN "encryptBody" ELSE "checkSignature"
        IN /\ Len(st) <= 2
           /\ Len(st) >= 1 => st[1].name = first
           /\ Len(st) = 2 => st[2].name = second /\ st[1].promise.status = "resolved"

\* an encrypt call has run both steps, and a decrypt call has stopped at a
\* decryption that failed
C2_Witness ==
    /\ \E c \in Encrypts : Len(Call(c).steps) = 2 /\ Call(c).promise.status = "resolved"
    /\ \E d \in Decrypts : /\ Settled(d) /\ Len(Call(d).steps) = 1
                           /\ Call(d).steps[1].promise.error.kind = "DecryptionFailed"

\* ---------------------------------------------------------------------- C3
\* how often a call has issued a read of a location
Fetches(c, loc) ==
    Cardinality({i \in DOMAIN Call(c).reads : Call(c).reads[i].loc = loc})
KeySetLocations == {clientPrivateKeySetLocation, hyperwalletKeySetLocation}
\* two encrypt calls, the second made after the first has settled
InSequence(c, d) ==
    /\ c \in Encrypts /\ d \in Encrypts
    /\ c < d
    /\ Call(d).afterSettled

\* C3 as claimed: over any two encrypt calls made one after the other each
\* key-set location is fetched at most once in total.
C3_FetchedOnceInTotal ==
    \A c, d \in CallIds :
        InSequence(c, d) => \A loc \in KeySetLocations : Fetches(c, loc) + Fetches(d, loc) <= 1

\* C3 as amended: every encrypt call fetches each location at most once, and
\* two encrypt calls made one after the other fetch each location at most
\* once in total when the first call's createKeyStore resolved.
C3_FetchedOnceAfterSuccess ==
    /\ \A c \in Encrypts : \A loc \in KeySetLocations : Fetches(c, loc) <= 1
    /\ \A c, d \in CallIds :
          InSequence(c, d) /\ Call(c).keyStorePromise.status = "resolved"
          => \A loc \in KeySetLocations : Fetches(c, loc) + Fetches(d, loc) <= 1

\* the first of two encrypt calls in sequence fetched both key sets and the
\* second, settled too, fetched none
C3_Witness ==
    \E c, d \in CallIds :
        /\ InSequence(c, d) /\ Settled(c) /\ Settled(d)
        /\ Call(c).keyStorePromise.status = "resolved"
        /\ \A loc \in KeySetLocations : Fetches(c, loc) = 1 /\ Fetches(d, loc) = 0

\* ---------------------------------------------------------------------- C4
\* C4 as claimed: each key store is assigned at most once, and no key set is
\* read again for a key store that is already populated.
C4_PopulatedAtMostOnce ==
    /\ ~reassigned.client /\ ~reassigned.hw
    /\ ~refetched.client /\ ~refetched.hw

\* ------------------------------------------------------------- C5 and C6
\* the algorithm a step asks its key store for
AlgOf(name) ==
    IF name \in {"signBody", "checkSignature"} THEN signAlgorithm ELSE encryptionAlgorithm
\* the checkSignature step of a call, the envelope it was given and what the
\* two gates make of it, computed from the recorded clock and key store
Verification(c) == StepOf(c, "checkSignature")
VerifiedAtSecond(c) == (2 * Verification(c).nowMs + 1000) \div 2000
Checked(c) ==
    /\ c \in Decrypts
    /\ Ran(c, "checkSignature")
    /\ KeyFound(Verification(c), signAlgorithm)
ExpGatePasses(c) ==
    ~(Call(c).decryptedBody.wellFormed /\ VerifiedAtSecond(c) > Call(c).decryptedBody.exp)
CryptoGatePasses(c) ==
    LET jws == Call(c).decryptedBody
        key == KeyOf(Verification(c), signAlgorithm)
    IN jws.wellFormed /\ jws.intact /\ jws.signer = key.kid /\ key.good

\* C5: checkSignature, and so decrypt, resolves with a payload only when the
\* envelope's exp is not less than the clock in seconds at verification and
\* the signature verified.
C5_BothGates ==
    \A c \in Decrypts :
        /\ Call(c).promise.status = "resolved" =>
              Ran(c, "checkSignature") /\ Verification(c).promise.status = "resolved"
        /\ Ran(c, "checkSignature") /\ Verification(c).promise.status = "resolved" =>
              Checked(c) /\ ExpGatePasses(c) /\ CryptoGatePasses(c)
        /\ Call(c).promise.status # "resolved" => Call(c).verified = NoVerificationResult

\* an expired envelope with a good signature has been rejected
C5_Witness ==
    \E c \in CallIds :
        /\ Checked(c) /\ CryptoGatePasses(c) /\ ~ExpGatePasses(c)
        /\ Call(c).promise.status = "rejected"

\* C6: when only one gate fails the failure names it: expired with a good
\* signature gives 'JWS signature has expired', unexpired with a bad
\* signature gives 'Failed to verify signature with key id = <kid>', and an
\* envelope whose exp equals the current second is not expired.
C6_FailureNamesGate ==
    \A c \in CallIds :
        Checked(c) =>
            LET key == KeyOf(Verification(c), signAlgorithm)
            IN /\ CryptoGatePasses(c) /\ ~ExpGatePasses(c) =>
                     Call(c).promise = [status |-> "rejected",
                                        error |-> Err("SignatureExpired", "")]
               /\ ~CryptoGatePasses(c) /\ ExpGatePasses(c) =>
                     Call(c).promise = [status |-> "rejected",
                                        error |-> Err("SignatureInvalid", key.kid)]
               /\ CryptoGatePasses(c) /\ VerifiedAtSecond(c) = Call(c).decryptedBody.exp =>
                     Call(c).promise.status = "resolved"

\* an envelope verified in the very second of its exp has been accepted
C6_Witness ==
    \E c \in CallIds :
        /\ Checked(c) /\ CryptoGatePasses(c)
        /\ VerifiedAtSecond(c) = Call(c).decryptedBody.exp
        /\ Call(c).promise.status = "resolved"

\* ---------------------------------------------------------------------- C7
\* the key store a step reads was there
StoreWasReady(entry) ==
    IF entry.name \in {"signBody", "decryptBody"} THEN entry.clientReady ELSE entry.hwReady
\* ...and held no key of the algorithm the step needs
AlgorithmAbsent(entry) ==
    /\ StoreWasReady(entry)
    /\ \A i \in DOMAIN entry.keys : entry.keys[i].alg # AlgOf(entry.name)

\* C7: a step whose key store holds no key of the required algorithm fails
\* with "JWK set doesn't contain key with algorithm = <alg>", without a
\* cryptographic operation, and the call fails with that same error.
C7_AlgorithmAbsence ==
    \A c \in Made : \A i \in DOMAIN Call(c).steps :
        LET entry == Call(c).steps[i]
            failure == [status |-> "rejected",
                        error |-> Err("AlgorithmNotProvisioned", AlgOf(entry.name))]
        IN AlgorithmAbsent(entry) =>
              /\ entry.promise = failure
              /\ ~entry.attempted
              /\ Call(c).promise = failure
              /\ i = Len(Call(c).steps)

\* verification has failed for want of a key of the signing algorithm, after
\* a decryption that succeeded
C7_Witness ==
    \E c \in Decrypts :
        /\ Ran(c, "checkSignature")
        /\ AlgorithmAbsent(Verification(c))
        /\ Call(c).promise.error.kind = "AlgorithmNotProvisioned"

\* ---------------------------------------------------------------------- C8
Rejected(kind, info) == [status |-> "rejected", error |-> Err(kind, info)]
\* a step that reached the library's operation and whose failure is the call's
Attempted(c, name) == Ran(c, name) /\ StepOf(c, name).attempted

\* the three steps whose failures C8 and its amendment agree on: a failed
\* signing gives 'Failed to sign with key id = <kid>', a failed encryption
\* 'Failed to encrypt payload with key id = <kid>', a damaged or malformed
\* ciphertext 'Failed to decrypt payload with key id = <kid>'; none leaves a
\* result.
SignEncryptDecryptFailuresTyped(c) ==
    /\ Attempted(c, "signBody") =>
          LET key == KeyOf(StepOf(c, "signBody"), signAlgorithm)
          IN ~(key.priv /\ key.good) =>
                /\ Call(c).promise = Rejected("SigningFailed", key.kid)
                /\ Call(c).signedBody = NoJws /\ Call(c).encrypted = NoJwe
    /\ Attempted(c, "encryptBody") =>
          LET key == KeyOf(StepOf(c, "encryptBody"), encryptionAlgorithm)
          IN ~key.good =>
                /\ Call(c).promise = Rejected("EncryptionFailed", key.kid)
                /\ Call(c).encrypted = NoJwe
    /\ Attempted(c, "decryptBody") =>
          LET key == KeyOf(StepOf(c, "decryptBody"), encryptionAlgorithm)
          IN Call(c).origin.damage \in {"ciphertext", "not a JWE"} =>
                /\ Call(c).promise = Rejected("DecryptionFailed", key.kid)
                /\ Call(c).decryptedBody = NoJws /\ Call(c).verified = NoVerificationResult

\* the signature of the envelope a call verified was damaged or malformed
SignatureDamaged(c) ==
    /\ Attempted(c, "checkSignature")
    /\ Call(c).origin.damage \in {"signature", "not a JWS"}

ReadsOf(c) == {Call(c).reads[i] : i \in DOMAIN Call(c).reads}

\* C9 as claimed: for an existing local file no HTTP request is issued, and
\* for a URL the file system is not touched at all.
C9_NoCrossAccess ==
    \A c \in Made : \A r \in ReadsOf(c) :
        /\ r.exists => r.request = 0
        /\ IsUrl(r.loc) => r.existsSync = 0 /\ r.readFile = 0

\* C9 as amended: for an existing local file no HTTP request is issued (the
\* file is read); for a URL no file is read: the one file-system access is
\* the existsSync probe, made for every location, and the request is issued.
C9_NoCrossRead ==
    \A c \in Made : \A r \in ReadsOf(c) :
        /\ r.existsSync = 1
        /\ r.exists => r.request = 0 /\ r.readFile = 1
        /\ IsUrl(r.loc) => r.readFile = 0 /\ r.request = 1

\* a call has read one key set by HTTP from a URL and the other from a file
C9_Witness ==
    \E c \in Made :
        /\ \E r \in ReadsOf(c) : IsUrl(r.loc) /\ r.request = 1 /\ r.promise.status = "resolved"
        /\ \E r \in ReadsOf(c) : r.exists /\ r.readFile = 1 /\ r.promise.status = "resolved"

\* C10 as claimed: every failure of readKeySet is 'Wrong JWK set location
\* path = <location>', carrying the location it was given, also for a file
\* that exists and cannot be read.
C10_FailureCarriesLocation ==
    \A c \in Made : \A r \in ReadsOf(c) :
        r.promise.status = "rejected" => r.promise.error = Err("KeySourceUnavailable", r.loc)

\* --------------------------------------------------------------------- C11
\* an encrypt call whose signBody has resolved: the clock it signed at
Signed(c) == c \in Encrypts /\ Ran(c, "signBody") /\ Call(c).signedBody # NoJws
SignedAt(c) == StepOf(c, "signBody").nowMs
\* a decrypt call that has verified, at clock VerifiedAt(d), the untouched
\* envelope encrypt call c produced
VerifiedAt(d) == StepOf(d, "checkSignature").nowMs
VerifiesProductOf(d, c) ==
    /\ d \in Decrypts /\ Ran(d, "checkSignature")
    /\ Call(c).op = "encrypt" /\ Call(c).promise.status = "resolved"
    /\ Call(d).origin.produced /\ Call(d).origin.damage = "none"
    /\ Call(d).input = Call(c).encrypted
\* the verifying clock is not earlier than and within the same second as the
\* signing clock
SameSecond(s, v) == v >= s /\ v \div 1000 = s \div 1000
NotFoundExpired(d) ==
    /\ Call(d).input.inner.exp >= (2 * VerifiedAt(d) + 1000) \div 2000
    /\ StepOf(d, "checkSignature").promise.error.kind # "SignatureExpired"
\* the signed exp is round((now_ms + validityMinutes*60000)/1000)
ExpAsComputed(c) ==
    Call(c).signedBody.exp =
        (2 * (SignedAt(c) + jwsExpirationMinutes * 60000) + 1000) \div 2000

\* C11 as claimed: the signed exp is round((now_ms + validityMinutes*60000)
\* / 1000), and for every non-negative validity window a verification in the
\* same second as the signing does not find the signature expired.
C11_ExpiryArithmetic ==
    /\ \A c \in CallIds : Signed(c) => ExpAsComputed(c)
    /\ \A c, d \in CallIds :
          VerifiesProductOf(d, c) /\ SameSecond(SignedAt(c), VerifiedAt(d))
          => NotFoundExpired(d)

\* C11 as amended: the signed exp is round((now_ms + validityMinutes*60000)
\* / 1000), and a verification in the same second as the signing does not
\* find the signature expired when the validity window is at least one
\* minute; with a window of 0 only when both clocks round to the same second.
C11_ExpiryArithmeticPositiveWindow ==
    /\ \A c \in CallIds : Signed(c) => ExpAsComputed(c)
    /\ \A c, d \in CallIds :
          /\ VerifiesProductOf(d, c) /\ SameSecond(SignedAt(c), VerifiedAt(d))
          /\ \/ jwsExpirationMinutes >= 1
             \/ (2 * VerifiedAt(d) + 1000) \div 2000 = (2 * SignedAt(c) + 1000) \div 2000
          => NotFoundExpired(d)

\* an envelope signed at a clock past the half second, with a window of one
\* minute or more, has been verified later in the same second
C11_Witness ==
    \E c, d \in CallIds :
        /\ VerifiesProductOf(d, c) /\ SameSecond(SignedAt(c), VerifiedAt(d))
        /\ VerifiedAt(d) > SignedAt(c)
        /\ SignedAt(c) % 1000 >= 500
        /\ jwsExpirationMinutes >= 1
        /\ Call(d).promise.status = "resolved"

\* --------------------------------------------------------------------- C12
\* C12 as claimed: every encrypt and decrypt call that is made eventually
\* settles, with its result or with a failure; none stays pending forever.
C12_EveryCallSettles ==
    \A c \in CallIds :
        (Call(c).op # "none") ~> (Call(c).promise.status \in {"resolved", "rejected"})

\* --------------------------------------------------------------------- C13
\* C13 as claimed: whenever decrypt starts its decryption step the client key
\* store is populated.
C13_ClientStorePopulated ==
    \A c \in Decrypts : Ran(c, "decryptBody") => StepOf(c, "decryptBody").clientReady

\* --------------------------------------------------------------------- C14
\* C14: whenever encrypt starts signing both key stores are populated; a
\* createKeyStore that resolved has assigned both key stores; an encrypt
\* whose createKeyStore rejected never signs and rejects with that error.
C14_SignsWithBothStores ==
    \A c \in Encrypts :
        /\ Ran(c, "signBody") =>
              StepOf(c, "signBody").clientReady /\ StepOf(c, "signBody").hwReady
        /\ Call(c).keyStorePromise.status = "resolved" =>
              clientKeyStore.ready /\ hwKeyStore.ready
        /\ Call(c).keyStorePromise.status = "rejected" =>
              /\ Call(c).steps = <<>>
              /\ Call(c).signedBody = NoJws /\ Call(c).encrypted = NoJwe
              /\ Settled(c) => Call(c).promise = Call(c).keyStorePromise

\* one encrypt call has given up on a createKeyStore that failed, and another
\* has read both key sets and signed
C14_Witness ==
    \E c, d \in Encrypts :
        /\ Settled(c) /\ Call(c).keyStorePromise.status = "rejected"
        /\ Len(Call(d).reads) = 2 /\ Ran(d, "signBody")
        /\ StepOf(d, "signBody").promise.status = "resolved"

\* --------------------------------------------------------------------- C15
\* createKeyStore has failed on the hyperwallet key set: it could not be read,
\* or what was read is no JWK set
HwKeySetFailed(c) ==
    /\ Len(Call(c).reads) >= 1
    /\ \/ Call(c).reads[1].promise.status = "rejected"
       \/ Call(c).reads[1].promise.status = "resolved" /\ ~hwJwkSet.wellFormed

\* C15 as claimed: once createKeyStore has failed inside a call on the
\* hyperwallet key set, the call fetches no further key set, and from the
\* rejection on the call assigns no key store: both stay as they were.
C15_FailureIsTerminal ==
    [][\A c \in CallIds :
          /\ HwKeySetFailed(c) => Len(Call(c).reads) = 1
          /\ /\ Call(c).keyStorePromise.status = "rejected"
             /\ calls'[c].keyStorePromise.status = "rejected"
             => clientKeyStore' = clientKeyStore /\ hwKeyStore' = hwKeyStore]_vars

\* --------------------------------------------------------------------- C16
\* both key stores are populated
BothPopulated == clientKeyStore.ready /\ hwKeyStore.ready
\* the step taken is call c's: it is made, or it goes on
StepOfCall(c) == calls'[c] # calls[c]
\* call c is made in this step, or has been made and has read no key set
MadeNowOrMemoised(c) == Free(c) \/ Call(c).reads = <<>>

\* C16: with both key stores populated, a call that is made reads no key set,
\* and no step of a call that has read none reads one or changes a key store.
C16_Memoised ==
    [][\A c \in CallIds :
          BothPopulated /\ StepOfCall(c) /\ MadeNowOrMemoised(c)
          => /\ calls'[c].reads = <<>>
             /\ clientKeyStore' = clientKeyStore /\ hwKeyStore' = hwKeyStore]_vars

\* after a call that read both key sets, a decrypt call made once both key
\* stores were populated has read none and has resolved
C16_Witness ==
    \E c \in Made, d \in Decrypts :
        /\ Len(Call(c).reads) = 2 /\ Call(c).keyStorePromise.status = "resolved"
        /\ Call(d).reads = <<>> /\ Call(d).afterSettled
        /\ Len(Call(d).steps) = 2 /\ Call(d).steps[1].clientReady /\ Call(d).steps[1].hwReady
        /\ Call(d).promise.status = "resolved"

====
